---- MODULE Spec2Model ----
(***************************************************************************)
(* Model of bevy_reflect's registry-driven deserializer                    *)
(* (crates/bevy_reflect/src/serde/de/deserializer.rs):                     *)
(*   ReflectDeserializer        the untyped entry point (single-entry map) *)
(*   TypedReflectDeserializer   the typed engine (dispatch by strategy)    *)
(*   ReflectDeserializerProcessor  the caller-supplied override            *)
(*   TYPE_INFO_STACK            the debug_stack thread-local               *)
(* The recursive descent is unfolded into an explicit call stack: one      *)
(* frame per active TypedReflectDeserializer::deserialize invocation.      *)
(***************************************************************************)
EXTENDS Integers, Sequences, FiniteSets, TLC

\* ------------------------------------------------------------------ bounds
\* Largest integer leaf of an input; the leaves are MaxInt-1 .. MaxInt.
MaxInt == 5
\* Longest input sequence.
MaxLen == 3

\* ------------------------------------------------------------ input tokens
\* A self-describing input value as the format's pull API presents it.
Tok(t, n, name, items) == [t |-> t, n |-> n, name |-> name, items |-> items]
IntTok(n) == Tok("int", n, "", <<>>)
StrTok(s) == Tok("str", 0, s, <<>>)
UnitTok == Tok("unit", 0, "", <<>>)
NoneTok == Tok("none", 0, "", <<>>)
SomeTok(x) == Tok("some", 0, "", <<x>>)
SeqTok(s) == Tok("seq", 0, "", s)
PairTok(k, v) == Tok("pair", 0, "", <<k, v>>)
\* a keyed aggregate: items are pairs (StrTok name, value)
StructTok(es) == Tok("struct", 0, "", es)
\* a map: items are pairs (key, value)
MapTok(es) == Tok("map", 0, "", es)
\* a tagged union value: variant name and payload
VariantTok(name, payload) == Tok("variant", 0, name, <<payload>>)

SeqsUpTo(S, k) == UNION {[1..j -> S] : j \in 0..k}

IntToks == {IntTok(n) : n \in (MaxInt - 1)..MaxInt}
PointToks ==
  {StructTok(<<>>)}
    \cup {StructTok(<<PairTok(StrTok(f), v)>>) :
            f \in {"value", "bogus"}, v \in IntToks \cup {NoneTok}}
SeqToks ==
  {SeqTok(s) : s \in SeqsUpTo(IntToks, MaxLen)}
    \cup {SeqTok(<<NoneTok>>), SeqTok(<<IntTok(MaxInt), NoneTok>>),
          SeqTok(<<IntTok(MaxInt), NoneTok, IntTok(MaxInt)>>)}
OuterToks == {StructTok(<<PairTok(StrTok("inner"), p)>>) : p \in PointToks}
MapToks ==
  {MapTok(s) : s \in SeqsUpTo({PairTok(IntTok(MaxInt), v) : v \in IntToks \cup {NoneTok}}, 1)}
OptionToks == {NoneTok} \cup {SomeTok(x) : x \in IntToks \cup {NoneTok}}
VariantToks ==
  {VariantTok(v, p) : v \in {"Red", "Gray", "Some", "Bogus"},
                         p \in {UnitTok, IntTok(MaxInt)}}
\* Inputs of a shape no kind but Opaque and the newtype takes.
OtherToks == {IntTok(MaxInt), NoneTok, UnitTok}

\* ------------------------------------------------------------ type registry
ReflectDeserialize == "ReflectDeserialize"
ReflectDeserializeWithRegistry == "ReflectDeserializeWithRegistry"
SerializationData == "SerializationData"

\* TypeInfo of a registration. fields: the field / element / key,value /
\* variant-payload type paths; names: field or variant names; an empty type
\* path marks a unit variant.
Info(kind, module_path, ident, names, fields, capacity) ==
  [kind |-> kind, module_path |-> module_path, ident |-> ident,
   names |-> names, fields |-> fields, capacity |-> capacity]

TypeInfos ==
  [p \in {"i32", "pkg::Raw", "pkg::Point", "pkg::Outer", "pkg::Wrapper",
          "pkg::WrapperSkip", "pkg::Pair", "pkg::Unit", "(i32, i32)",
          "alloc::vec::Vec<i32>", "[i32; 2]", "HashMap<i32, i32>",
          "HashSet<i32>", "core::option::Option<i32>", "pkg::Option<i32>",
          "pkg::Color"} |->
     CASE p = "i32" -> Info("Opaque", "", "i32", <<>>, <<>>, 0)
       [] p = "pkg::Raw" -> Info("Opaque", "pkg", "Raw", <<>>, <<>>, 0)
       [] p = "pkg::Point" -> Info("Struct", "pkg", "Point", <<"value">>, <<"i32">>, 0)
       [] p = "pkg::Outer" -> Info("Struct", "pkg", "Outer", <<"inner">>, <<"pkg::Point">>, 0)
       [] p = "pkg::Wrapper" -> Info("TupleStruct", "pkg", "Wrapper", <<>>, <<"i32">>, 0)
       [] p = "pkg::WrapperSkip" -> Info("TupleStruct", "pkg", "WrapperSkip", <<>>, <<"i32">>, 0)
       [] p = "pkg::Pair" -> Info("TupleStruct", "pkg", "Pair", <<>>, <<"i32", "i32">>, 0)
       [] p = "pkg::Unit" -> Info("TupleStruct", "pkg", "Unit", <<>>, <<>>, 0)
       [] p = "(i32, i32)" -> Info("Tuple", "", "", <<>>, <<"i32", "i32">>, 0)
       [] p = "alloc::vec::Vec<i32>" -> Info("List", "alloc::vec", "Vec", <<>>, <<"i32">>, 0)
       [] p = "[i32; 2]" -> Info("Array", "", "", <<>>, <<"i32">>, 2)
       [] p = "HashMap<i32, i32>" -> Info("Map", "std::collections", "HashMap", <<>>, <<"i32", "i32">>, 0)
       [] p = "HashSet<i32>" -> Info("Set", "std::collections", "HashSet", <<>>, <<"i32">>, 0)
       [] p = "core::option::Option<i32>" ->
            Info("Enum", "core::option", "Option", <<"None", "Some">>, <<"", "i32">>, 0)
       [] p = "pkg::Option<i32>" ->
            Info("Enum", "pkg", "Option", <<"None", "Some">>, <<"", "i32">>, 0)
       [] p = "pkg::Color" ->
            Info("Enum", "pkg", "Color", <<"Red", "Gray">>, <<"", "i32">>, 0)]

\* The registered type paths.
Paths == DOMAIN TypeInfos
\* A key of the outer map that no registration has.
UnregisteredPath == "pkg::Missing"

\* The type data every session's registry carries.
BaseData(p) ==
  CASE p = "i32" -> {ReflectDeserialize}
    [] p = "pkg::WrapperSkip" -> {SerializationData}
    [] OTHER -> {}

StructuralKinds == {"Struct", "TupleStruct", "Tuple", "List", "Array", "Map", "Set", "Enum"}

\* The payloads a session may feed to the type at path p: the ones of its
\* kind's shape, well-formed and not, and ones of another shape.
Payloads(p) ==
  LET kind == IF p \in Paths THEN TypeInfos[p].kind ELSE "" IN
  OtherToks \cup
    (CASE kind = "Opaque" -> IntToks
       [] kind = "Struct" -> IF p = "pkg::Outer" THEN OuterToks ELSE PointToks
       [] kind = "Map" -> MapToks \cup {SeqTok(<<>>)}
       [] kind = "Enum" -> OptionToks \cup VariantToks
       [] kind \in {"TupleStruct", "Tuple", "List", "Array", "Set"} ->
            SeqToks \cup IntToks \cup {StructTok(<<>>)}
       [] OTHER -> {})

\* ----------------------------------------------------------- dynamic values
\* A Box<dyn PartialReflect>: a concrete value of a registered type, or a
\* dynamic container. represented = "" is "no represented type".
Val(kind, represented, variant, names, items, n) ==
  [kind |-> kind, represented |-> represented, variant |-> variant,
   names |-> names, items |-> items, n |-> n]
NoValue == Val("none", "", "", <<>>, <<>>, 0)
\* A concrete (non-dynamic) value of type p; its represented type is its own.
ConcreteVal(p, n) == Val("Concrete", p, "", <<>>, <<>>, n)
Dynamic(kind, variant, names, items) == Val(kind, "", variant, names, items, 0)

\* Result<Box<dyn PartialReflect>, Error>
Ok(v) == [st |-> "ok", value |-> v, err |-> ""]
Err(e) == [st |-> "err", value |-> NoValue, err |-> e]
NoResult == [st |-> "none", value |-> NoValue, err |-> ""]
\* The call did not return: a callback panicked and the caller caught the
\* unwinding (catch_unwind, or a task pool that survives a panicking task).
Panicked == [st |-> "panic", value |-> NoValue, err |-> ""]

\* make_custom_error: wraps a foreign error as this format's custom error.
make_custom_error(e) == "custom(" \o e \o ")"

\* ---------------------------------------------------------------- processor
\* Option<&mut ReflectDeserializerProcessor>: attached = FALSE is None. The
\* can_deserialize closure is the membership test of `claims`; the
\* deserialize closure consumes the input and either fails or returns a
\* constant, as in the documentation's example. callback says what else the
\* closure, being the caller's code, may do instead: panic, or read the input
\* as an i32 through a deserializer it makes with TypedReflectDeserializer::new.
NoProcessor == [attached |-> FALSE, claims |-> {}, fails |-> FALSE, callback |-> "returns"]
Processor(claims, fails) ==
  [attached |-> TRUE, claims |-> claims, fails |-> fails, callback |-> "returns"]
PanickingProcessor(claims) == [Processor(claims, FALSE) EXCEPT !.callback = "panics"]
DelegatingProcessor(claims) == [Processor(claims, FALSE) EXCEPT !.callback = "delegates"]

\* Mutant: the closure's answer is not looked at; an attached processor
\* takes every value over.
can_deserialize_ignored(processor, registration) == TRUE

can_deserialize(processor, registration) == registration \in processor.claims

\* deserialize_reflect.deserialize(deserializer) of the type data registered
\* for `registration`: the type's own serde impl, which yields a concrete
\* value of that type or fails on input of another shape.
NativeTok(kind) ==
  CASE kind = "Opaque" -> "int"
    [] kind = "Struct" -> "struct"
    [] kind = "Map" -> "map"
    [] kind = "Enum" -> "variant"
    [] OTHER -> "seq"
TypeDataDeserialize(registration, input) ==
  IF input.t = NativeTok(TypeInfos[registration].kind)
  THEN Ok(ConcreteVal(registration, input.n))
  ELSE Err("invalid type")

\* (processor.deserialize)(registration, &mut deserializer): what the closure
\* hands back, if it returns. The delegating closure hands back what its
\* nested deserializer made of the input as an i32, a type that carries
\* ReflectDeserialize.
ProcessorDeserialize(processor, registration, input) ==
  CASE processor.callback = "panics" -> Panicked
    [] processor.callback = "delegates" -> TypeDataDeserialize("i32", input)
    [] OTHER -> IF processor.fails THEN Err("processor failed")
                ELSE Ok(ConcreteVal("i32", 42))

\* ------------------------------------------------- the typed engine: dispatch
\* registration.data::<T>() on the session's registry
HasData(registry, registration, data) == data \in registry[registration]

\* `if let Some(processor) = self.processor.as_deref_mut()` and
\* `(processor.can_deserialize)(self.registration)`
ProcessorTakesOver(processor, registration) ==
  processor.attached /\ can_deserialize(processor, registration)

\* Mutant: the ReflectDeserialize type data is looked up before the processor
\* is consulted.
StrategyTypeDataFirst(processor, registry, registration) ==
  IF HasData(registry, registration, ReflectDeserialize) THEN "ReflectDeserialize"
  ELSE IF ProcessorTakesOver(processor, registration) THEN "processor"
  ELSE IF HasData(registry, registration, ReflectDeserializeWithRegistry)
    THEN "ReflectDeserializeWithRegistry"
  ELSE "structural"

\* Mutant: the registry-aware type data is looked up before the plain one.
StrategyWithRegistryFirst(processor, registry, registration) ==
  IF ProcessorTakesOver(processor, registration) THEN "processor"
  ELSE IF HasData(registry, registration, ReflectDeserializeWithRegistry)
    THEN "ReflectDeserializeWithRegistry"
  ELSE IF HasData(registry, registration, ReflectDeserialize) THEN "ReflectDeserialize"
  ELSE "structural"

\* The strategy deserialize_internal runs: the first that applies, in the
\* order of the function's early returns.
Strategy(processor, registry, registration) ==
  IF ProcessorTakesOver(processor, registration) THEN "processor"
  ELSE IF HasData(registry, registration, ReflectDeserialize) THEN "ReflectDeserialize"
  ELSE IF HasData(registry, registration, ReflectDeserializeWithRegistry)
    THEN "ReflectDeserializeWithRegistry"
  ELSE "structural"

\* Mutant: every one-field tuple struct is requested as a newtype.
IsNewtypeByFieldCount(registry, registration) ==
  Len(TypeInfos[registration].fields) = 1

\* The TupleStruct arm's condition for the newtype request.
IsNewtype(registry, registration) ==
  Len(TypeInfos[registration].fields) = 1
    /\ ~HasData(registry, registration, SerializationData)

\* Mutant: any enum named Option is taken for the built-in one.
IsOptionByIdent(info) == info.ident = "Option"

\* The Enum arm's condition for the native optional request.
IsOption(info) ==
  info.module_path = "core::option" /\ info.ident = "Option"

\* What the match on type_info() asks of the input: the Deserializer method,
\* its length argument (0 where it takes none), and the visitor handed over.
Req(method, len, visitor) == [method |-> method, len |-> len, visitor |-> visitor]

\* Mutant: the Array arm is a copy of the List arm (deserialize_seq with a
\* ListVisitor); the other arms are as written.
RequestArrayAsList(registry, registration) ==
  LET info == TypeInfos[registration] IN
  CASE info.kind = "Struct" -> Req("deserialize_struct", 0, "StructVisitor")
    [] info.kind = "TupleStruct" ->
         IF IsNewtype(registry, registration)
         THEN Req("deserialize_newtype_struct", 0, "TupleStructVisitor")
         ELSE Req("deserialize_tuple_struct", Len(info.fields), "TupleStructVisitor")
    [] info.kind = "List" -> Req("deserialize_seq", 0, "ListVisitor")
    [] info.kind = "Array" -> Req("deserialize_seq", 0, "ListVisitor")
    [] info.kind = "Map" -> Req("deserialize_map", 0, "MapVisitor")
    [] info.kind = "Set" -> Req("deserialize_seq", 0, "SetVisitor")
    [] info.kind = "Tuple" -> Req("deserialize_tuple", Len(info.fields), "TupleVisitor")
    [] info.kind = "Enum" ->
         IF IsOption(info)
         THEN Req("deserialize_option", 0, "OptionVisitor")
         ELSE Req("deserialize_enum", 0, "EnumVisitor")
    [] OTHER -> Req("none", 0, "none")

Request(registry, registration) ==
  LET info == TypeInfos[registration] IN
  CASE info.kind = "Struct" -> Req("deserialize_struct", 0, "StructVisitor")
    [] info.kind = "TupleStruct" ->
         IF IsNewtype(registry, registration)
         THEN Req("deserialize_newtype_struct", 0, "TupleStructVisitor")
         ELSE Req("deserialize_tuple_struct", Len(info.fields), "TupleStructVisitor")
    [] info.kind = "List" -> Req("deserialize_seq", 0, "ListVisitor")
    [] info.kind = "Array" -> Req("deserialize_tuple", info.capacity, "ArrayVisitor")
    [] info.kind = "Map" -> Req("deserialize_map", 0, "MapVisitor")
    [] info.kind = "Set" -> Req("deserialize_seq", 0, "SetVisitor")
    [] info.kind = "Tuple" -> Req("deserialize_tuple", Len(info.fields), "TupleVisitor")
    [] info.kind = "Enum" ->
         IF IsOption(info)
         THEN Req("deserialize_option", 0, "OptionVisitor")
         ELSE Req("deserialize_enum", 0, "EnumVisitor")
    [] OTHER -> Req("none", 0, "none")

\* Mutant: the arm returns the visitor's container as it is.
set_represented_type_skipped(value, registration) == value

\* dynamic_x.set_represented_type(Some(self.registration.type_info()))
set_represented_type(value, registration) ==
  [value EXCEPT !.represented = registration]

\* Mutant: a visitor's error is made up for by an empty container
\* (unwrap_or_default for `?`).
ArmResultOrDefault(visited, registration) ==
  Ok(set_represented_type(
       IF visited.st = "ok" THEN visited.value
       ELSE Dynamic("DynamicStruct", "", <<>>, <<>>),
       registration))

\* A structural arm of the match: `?` on what the deserialize_* call
\* returned, then set_represented_type on the container and Ok(Box::new(..)).
ArmResult(visited, registration) ==
  IF visited.st = "ok" THEN Ok(set_represented_type(visited.value, registration))
  ELSE visited

\* Mutant: the Opaque arm returns a default value of the type.
OpaqueResultDefault(registration) == Ok(ConcreteVal(registration, 0))

\* The Opaque arm: no strategy is left.
OpaqueResult(registration) ==
  Err(make_custom_error("type " \o registration
        \o " did not register the ReflectDeserialize type data"))

\* Mutant: the visitors decode their nested values without the processor.
VisitorProcessorDropped(processor) == NoProcessor

\* The processor handed to the visitor of a container (processor: self.processor).
VisitorProcessor(processor) == processor

\* ------------------------------------------- the input format and the visitors
\* What a visitor will do with the input it is handed: the nested values it
\* decodes, in order (each by a TypedReflectDeserializer for the nested type),
\* the dynamic container it builds, and how it ends once they are decoded
\* ("ok", or the error that ends it).
Child(registration, input) == [registration |-> registration, input |-> input]
PlanOf(kind, variant, names, todo, fin) ==
  [kind |-> kind, variant |-> variant, names |-> names, todo |-> todo, fin |-> fin]
Refused(kind) == PlanOf(kind, "", <<>>, <<>>, "invalid type")

Min(S) == CHOOSE x \in S : \A y \in S : x <= y
Take(s, n) == IF n = 0 THEN <<>> ELSE SubSeq(s, 1, n)
IndexOf(names, name) == CHOOSE j \in 1..Len(names) : names[j] = name
Known(names, name) == \E j \in 1..Len(names) : names[j] = name

\* StructVisitor::visit_map: fields are resolved by name; a name the type
\* does not have ends the visit.
StructPlan(info, input) ==
  IF input.t # "struct" THEN Refused("DynamicStruct")
  ELSE LET es == input.items
           bad == {i \in 1..Len(es) : ~Known(info.names, es[i].items[1].name)}
           n == IF bad = {} THEN Len(es) ELSE Min(bad) - 1
       IN PlanOf("DynamicStruct", "",
                 Take([i \in 1..Len(es) |-> es[i].items[1].name], n),
                 Take([i \in 1..Len(es) |->
                         IF i \in bad THEN Child("", es[i].items[2])
                         ELSE Child(info.fields[IndexOf(info.names, es[i].items[1].name)],
                                    es[i].items[2])], n),
                 IF bad = {} THEN "ok" ELSE "unknown field")

\* TupleStructVisitor::visit_seq and TupleVisitor::visit_seq: one element per
\* field, in order; a missing element is an invalid length, and elements
\* left over are refused when the sequence is closed.
PositionalPlan(kind, info, input) ==
  IF input.t # "seq" THEN Refused(kind)
  ELSE LET n == Len(input.items)
           l == Len(info.fields)
           m == IF n < l THEN n ELSE l
       IN PlanOf(kind, "", <<>>,
                 Take([i \in 1..n |-> Child(IF i <= l THEN info.fields[i] ELSE "",
                                            input.items[i])], m),
                 IF n < l THEN "invalid length"
                 ELSE IF n > l THEN "trailing elements" ELSE "ok")

\* TupleStructVisitor::visit_newtype_struct: the bare inner value is field 0.
NewtypePlan(info, input) ==
  PlanOf("DynamicTupleStruct", "", <<>>, <<Child(info.fields[1], input)>>, "ok")

\* ListVisitor::visit_seq and SetVisitor::visit_seq: every element.
SeqPlan(kind, info, input) ==
  IF input.t # "seq" THEN Refused(kind)
  ELSE PlanOf(kind, "", <<>>,
              [i \in 1..Len(input.items) |-> Child(info.fields[1], input.items[i])],
              "ok")

\* ArrayVisitor::visit_seq: every element, then the length must be the capacity.
ArrayPlan(info, input) ==
  IF input.t # "seq" THEN Refused("DynamicArray")
  ELSE PlanOf("DynamicArray", "", <<>>,
              [i \in 1..Len(input.items) |-> Child(info.fields[1], input.items[i])],
              IF Len(input.items) # info.capacity THEN "invalid length" ELSE "ok")

\* MapVisitor::visit_map: key, value, key, value, ...
MapPlan(info, input) ==
  IF input.t # "map" THEN Refused("DynamicMap")
  ELSE PlanOf("DynamicMap", "", <<>>,
              [i \in 1..(2 * Len(input.items)) |->
                 IF i % 2 = 1 THEN Child(info.fields[1], input.items[(i + 1) \div 2].items[1])
                 ELSE Child(info.fields[2], input.items[i \div 2].items[2])],
              "ok")

\* OptionVisitor: visit_none builds the None variant, visit_some decodes the
\* inner value with the Some variant's field type.
OptionPlan(info, input) ==
  CASE input.t = "none" -> PlanOf("DynamicEnum", "None", <<>>, <<>>, "ok")
    [] input.t = "some" ->
         IF Known(info.names, "Some")
         THEN PlanOf("DynamicEnum", "Some", <<>>,
                     <<Child(info.fields[IndexOf(info.names, "Some")], input.items[1])>>, "ok")
         ELSE PlanOf("DynamicEnum", "", <<>>, <<>>, "unknown variant")
    [] OTHER -> Refused("DynamicEnum")

\* EnumVisitor::visit_enum: the variant is resolved by name; a unit variant
\* takes no payload, a one-field variant decodes its payload.
EnumPlan(info, input) ==
  IF input.t # "variant" THEN Refused("DynamicEnum")
  ELSE IF ~Known(info.names, input.name)
    THEN PlanOf("DynamicEnum", "", <<>>, <<>>, "unknown variant")
  ELSE LET ty == info.fields[IndexOf(info.names, input.name)] IN
       IF ty = ""
       THEN PlanOf("DynamicEnum", input.name, <<>>, <<>>,
                   IF input.items[1].t = "unit" THEN "ok" ELSE "invalid type")
       ELSE PlanOf("DynamicEnum", input.name, <<>>, <<Child(ty, input.items[1])>>, "ok")

\* The format serving a request: it checks the input's shape and drives the
\* visitor it was given.
Plan(request, registration, input) ==
  LET info == TypeInfos[registration] IN
  CASE request.visitor = "StructVisitor" -> StructPlan(info, input)
    [] request.visitor = "TupleStructVisitor" ->
         IF request.method = "deserialize_newtype_struct"
         THEN NewtypePlan(info, input)
         ELSE PositionalPlan("DynamicTupleStruct", info, input)
    [] request.visitor = "TupleVisitor" -> PositionalPlan("DynamicTuple", info, input)
    [] request.visitor = "ListVisitor" -> SeqPlan("DynamicList", info, input)
    [] request.visitor = "SetVisitor" -> SeqPlan("DynamicSet", info, input)
    [] request.visitor = "ArrayVisitor" -> ArrayPlan(info, input)
    [] request.visitor = "MapVisitor" -> MapPlan(info, input)
    [] request.visitor = "OptionVisitor" -> OptionPlan(info, input)
    [] request.visitor = "EnumVisitor" -> EnumPlan(info, input)
    [] OTHER -> Refused("none")

\* ------------------------------------- the typed engine, as a function
\* What TypedReflectDeserializer { registration, registry, processor }
\* .deserialize(input) returns: deserialize_internal's strategies in their
\* order, the visitor's nested values decoded by the same function with the
\* processor handed on, the first failure ending the visit.
RECURSIVE TypedReflectDeserializer_deserialize(_, _, _, _)
TypedReflectDeserializer_deserialize(processor, registry, registration, input) ==
  LET strategy == Strategy(processor, registry, registration) IN
  CASE strategy = "processor" ->
         LET r == ProcessorDeserialize(processor, registration, input)
         IN IF r.st = "err" THEN Err(make_custom_error(r.err)) ELSE r
    [] strategy \in {"ReflectDeserialize", "ReflectDeserializeWithRegistry"} ->
         TypeDataDeserialize(registration, input)
    [] OTHER ->
         IF TypeInfos[registration].kind = "Opaque" THEN OpaqueResult(registration)
         ELSE LET plan == Plan(Request(registry, registration), registration, input)
                  outs == [i \in 1..Len(plan.todo) |->
                             TypedReflectDeserializer_deserialize(
                               VisitorProcessor(processor), registry,
                               plan.todo[i].registration, plan.todo[i].input)]
                  bad == {i \in 1..Len(plan.todo) : outs[i].st # "ok"}
              IN IF bad # {} THEN ArmResult(outs[Min(bad)], registration)
                 ELSE ArmResult(
                        IF plan.fin = "ok"
                        THEN Ok(Dynamic(plan.kind, plan.variant, plan.names,
                                        [i \in 1..Len(plan.todo) |-> outs[i].value]))
                        ELSE Err(plan.fin),
                        registration)

\* ------------------------------------------------------------------- state
VARIABLES
  registry,         \* the session's TypeRegistry: type path -> its type data
  session,          \* how the running session was started, and on what
  pc,               \* where the session is
  stack,            \* active TypedReflectDeserializer::deserialize calls, outermost first
  value,            \* visit_map's `value`: what next_value_seed returned
  result,           \* what the session's deserialize call returned
  calls,            \* what each invocation called, in order
  invocations,      \* TypedReflectDeserializer::deserialize calls made so far
  TYPE_INFO_STACK   \* the debug_stack thread-local

vars == <<registry, session, pc, stack, value, result, calls, invocations, TYPE_INFO_STACK>>

\* One TypedReflectDeserializer { registration, registry, processor } being
\* deserialized: its fields, its input, and the locals of deserialize.
Frame(id, registration, input, processor) ==
  [id |-> id, registration |-> registration, input |-> input,
   processor |-> processor, pc |-> "enter", strategy |-> "",
   request |-> Req("none", 0, "none"),
   kind |-> "", variant |-> "", names |-> <<>>, todo |-> <<>>, fin |-> "",
   done |-> <<>>, output |-> NoResult]

\* One call made by invocation `id`; ret is what can_deserialize returned
\* ("" for the other calls).
Call(id, registration, what, ret) ==
  [id |-> id, registration |-> registration, call |-> what, ret |-> ret]

Top == stack[Len(stack)]
SetTop(f) == [stack EXCEPT ![Len(stack)] = f]
Pop(s) == IF s = <<>> THEN <<>> ELSE SubSeq(s, 1, Len(s) - 1)

\* Mutant: deserialize_internal()'s error returns at once (`?`), before the
\* pop.
PopUnlessErr(tis, output) == IF output.st = "err" THEN tis ELSE Pop(tis)

\* TYPE_INFO_STACK.with_borrow_mut(TypeInfoStack::pop), run once
\* deserialize_internal has returned `output`, whatever it is.
PopAfter(tis, output) == Pop(tis)

\* Mutant: the outer map's value is decoded without the processor.
next_value_seed_without_processor(registration, input, processor) ==
  Frame(1, registration, input, NoProcessor)

\* map.next_value_seed(TypedReflectDeserializer { registration, registry,
\* processor }): the deserializer visit_map builds for the value.
next_value_seed(registration, input, processor) ==
  Frame(1, registration, input, processor)

\* stack0 is the thread-local as the session's deserialize call finds it.
Session(entry, registration, input, processor, outer) ==
  [entry |-> entry, registration |-> registration, input |-> input,
   processor |-> processor, outer |-> outer, stack0 |-> <<>>]
NoSession == Session("", "", UnitTok, NoProcessor, <<>>)

\* ------------------------------------------------------------ session inputs
\* Most trailing entries of an outer map after its first.
MaxTrailing == 1

\* Type data a session's registry adds to the type being decoded.
ExtraData ==
  {{}, {ReflectDeserialize}, {ReflectDeserializeWithRegistry},
   {ReflectDeserialize, ReflectDeserializeWithRegistry}, {SerializationData}}
RegistryWith(target, extra) ==
  [p \in Paths |-> IF p = target THEN BaseData(p) \cup extra ELSE BaseData(p)]

\* The processors a session may be given for the type being decoded.
Processors(target) ==
  {Processor({}, FALSE), Processor({target}, FALSE), Processor({target}, TRUE),
   Processor({"i32"}, FALSE), Processor({"i32"}, TRUE)}

\* A processor whose callback panics, given to typed sessions on an i32.
PanickingProcessors(target) ==
  IF target = "i32" THEN {PanickingProcessor({"i32"})} ELSE {}

\* A processor whose callback reads every i32 through a deserializer of its
\* own.
DelegatingProcessors == {DelegatingProcessor({"i32"})}

Entry(key, payload) == PairTok(StrTok(key), payload)
TrailingEntries == SeqsUpTo({Entry("extra", IntTok(1))}, MaxTrailing)

Init ==
  /\ registry = [p \in Paths |-> BaseData(p)]
  /\ session = NoSession
  /\ pc = "idle"
  /\ stack = <<>>
  /\ value = NoResult
  /\ result = NoResult
  /\ calls = <<>>
  /\ invocations = 0
  /\ TYPE_INFO_STACK = <<>>

Idle == pc = "idle"

\* A session starts: everything the previous one left, but the thread-local.
Begin(s, reg, nextpc, frames, tis) ==
  /\ session' = [s EXCEPT !.stack0 = tis]
  /\ registry' = reg
  /\ pc' = nextpc
  /\ stack' = frames
  /\ value' = NoResult
  /\ result' = NoResult
  /\ calls' = <<>>
  /\ invocations' = Len(frames)
  /\ TYPE_INFO_STACK' = tis

\* ----------------------------------------------------- the untyped entry point
\* ReflectDeserializer::new(registry).deserialize(input): deserialize_map
\* hands the outer map to UntypedReflectDeserializerVisitor::visit_map.
ReflectDeserializer_new ==
  /\ Idle
  /\ \E key \in Paths \cup {UnregisteredPath}, extra \in ExtraData,
        rest \in TrailingEntries, empty \in BOOLEAN :
     \E payload \in Payloads(key) :
       LET outer == IF empty THEN <<>> ELSE <<Entry(key, payload)>> \o rest IN
       /\ empty => (key = UnregisteredPath /\ extra = {} /\ rest = <<>>
                      /\ payload = UnitTok)
       /\ key = UnregisteredPath => extra = {}
       /\ Begin(Session("ReflectDeserializer::new", "", MapTok(outer), NoProcessor, outer),
                RegistryWith(key, extra), "visit_map", <<>>, TYPE_INFO_STACK)

\* ReflectDeserializer::new_with_processor(registry, processor).deserialize(input)
ReflectDeserializer_new_with_processor ==
  /\ Idle
  /\ \E key \in Paths \cup {UnregisteredPath}, extra \in ExtraData,
        rest \in TrailingEntries, empty \in BOOLEAN :
     \E payload \in Payloads(key) :
     \E processor \in Processors(key) \cup DelegatingProcessors :
       LET outer == IF empty THEN <<>> ELSE <<Entry(key, payload)>> \o rest IN
       /\ empty => (key = UnregisteredPath /\ extra = {} /\ rest = <<>>
                      /\ payload = UnitTok)
       /\ key = UnregisteredPath => extra = {}
       /\ Begin(Session("ReflectDeserializer::new_with_processor", "", MapTok(outer),
                        processor, outer),
                RegistryWith(key, extra), "visit_map", <<>>, TYPE_INFO_STACK)

\* TypeRegistrationDeserializer: the key as a registered full type path.
ResolveKey(key) ==
  IF key.name \in Paths THEN [st |-> "ok", registration |-> key.name, err |-> ""]
  ELSE [st |-> "err", registration |-> "",
        err |-> "no registration found for " \o key.name]

\* Mutant: a map without a first key is reported as a key that failed to
\* resolve.
FirstKeyNoLengthError(outer) ==
  IF outer = <<>> THEN ResolveKey(StrTok(""))
  ELSE ResolveKey(outer[1].items[1])

\* Mutant: the key's own error is dropped (`.ok()` for `?`), so a key that
\* does not resolve reads as no key at all.
FirstKeyErrorDropped(outer) ==
  IF outer = <<>> \/ ResolveKey(outer[1].items[1]).st = "err"
  THEN [st |-> "err", registration |-> "", err |-> "invalid length 0, expected a single entry"]
  ELSE ResolveKey(outer[1].items[1])

\* visit_map up to next_value_seed: the first key, or the error that ends it.
FirstKey(outer) ==
  IF outer = <<>>
  THEN [st |-> "err", registration |-> "", err |-> "invalid length 0, expected a single entry"]
  ELSE ResolveKey(outer[1].items[1])

\* Mutant: the value is returned without looking for a further key.
AfterValueNoTrailingCheck(outer, v) == v

\* visit_map after next_value_seed: `?` on the value, then the check that no
\* further key follows.
AfterValue(outer, v) ==
  IF v.st = "err" THEN v
  ELSE IF Len(outer) > 1 THEN Err("invalid length 2, expected a single entry")
  ELSE v

\* visit_map, first half: resolve the key and start decoding its value.
VisitMapKey ==
  /\ pc = "visit_map"
  /\ LET k == FirstKey(session.outer) IN
     IF k.st = "err"
     THEN /\ result' = Err(k.err)
          /\ pc' = "done"
          /\ UNCHANGED <<stack, invocations>>
     ELSE /\ stack' = <<next_value_seed(k.registration, session.outer[1].items[2],
                                        session.processor)>>
          /\ invocations' = 1
          /\ pc' = "visit_map_value"
          /\ UNCHANGED result
  /\ UNCHANGED <<registry, session, value, calls, TYPE_INFO_STACK>>

\* visit_map, second half, once the value's deserialize call has returned.
VisitMapEnd ==
  /\ pc = "visit_map_end"
  /\ result' = AfterValue(session.outer, value)
  /\ pc' = "done"
  /\ UNCHANGED <<registry, session, stack, value, calls, invocations, TYPE_INFO_STACK>>

\* ------------------------------------------------------- the typed entry point
\* TypedReflectDeserializer::new(registration, registry).deserialize(input):
\* the constructor resets the thread-local.
TypedReflectDeserializer_new ==
  /\ Idle
  /\ \E registration \in Paths, extra \in ExtraData :
     \E input \in Payloads(registration) :
       Begin(Session("TypedReflectDeserializer::new", registration, input,
                     NoProcessor, <<>>),
             RegistryWith(registration, extra), "typed",
             <<Frame(1, registration, input, NoProcessor)>>, <<>>)

\* TypedReflectDeserializer::new_with_processor(registration, registry,
\* processor).deserialize(input): the constructor resets the thread-local.
TypedReflectDeserializer_new_with_processor ==
  /\ Idle
  /\ \E registration \in Paths, extra \in ExtraData :
     \E input \in Payloads(registration),
        processor \in Processors(registration) \cup DelegatingProcessors
                        \cup PanickingProcessors(registration) :
       Begin(Session("TypedReflectDeserializer::new_with_processor", registration,
                     input, processor, <<>>),
             RegistryWith(registration, extra), "typed",
             <<Frame(1, registration, input, processor)>>, <<>>)

\* TypedReflectDeserializer::of::<T>(registry).deserialize(input): the
\* thread-local is left as it is.
TypedReflectDeserializer_of ==
  /\ Idle
  /\ \E registration \in Paths, extra \in ExtraData :
     \E input \in Payloads(registration) :
       Begin(Session("TypedReflectDeserializer::of", registration, input,
                     NoProcessor, <<>>),
             RegistryWith(registration, extra), "typed",
             <<Frame(1, registration, input, NoProcessor)>>, TYPE_INFO_STACK)

\* ----------------------------------- TypedReflectDeserializer::deserialize
Running == stack # <<>>

\* TYPE_INFO_STACK.with_borrow_mut(|stack| stack.push(type_info)), before
\* deserialize_internal runs.
Enter ==
  /\ Running /\ Top.pc = "enter"
  /\ TYPE_INFO_STACK' = Append(TYPE_INFO_STACK, Top.registration)
  /\ stack' = SetTop([Top EXCEPT !.pc = "dispatch"])
  /\ UNCHANGED <<registry, session, pc, value, result, calls, invocations>>

\* The consultation of the processor that opens deserialize_internal.
ProcessorCheck(f) ==
  IF f.processor.attached
  THEN <<Call(f.id, f.registration, "can_deserialize",
              IF can_deserialize(f.processor, f.registration) THEN "true" ELSE "false")>>
  ELSE <<>>

Dispatching(strategy) ==
  /\ Running /\ Top.pc = "dispatch"
  /\ Strategy(Top.processor, registry, Top.registration) = strategy

\* The invocation ends with `output`, having made `made` calls.
Finish(strategy, made, output) ==
  /\ stack' = SetTop([Top EXCEPT !.pc = "exit", !.strategy = strategy,
                                 !.output = output])
  /\ calls' = calls \o made
  /\ UNCHANGED <<registry, session, pc, value, result, invocations, TYPE_INFO_STACK>>

\* (1) the processor takes the value over.
DispatchProcessor ==
  /\ Dispatching("processor")
  /\ Top.processor.callback = "returns"
  /\ LET r == ProcessorDeserialize(Top.processor, Top.registration, Top.input) IN
     Finish("processor",
            ProcessorCheck(Top)
              \o <<Call(Top.id, Top.registration, "processor.deserialize", "")>>,
            IF r.st = "err" THEN Err(make_custom_error(r.err)) ELSE r)

\* (1) the processor takes the value over and its callback panics: the
\* unwinding leaves every active deserialize call, none of which pops, and
\* the caller of the session catches it.
DispatchProcessorPanics ==
  /\ Dispatching("processor")
  /\ Top.processor.callback = "panics"
  /\ calls' = calls \o ProcessorCheck(Top)
                \o <<Call(Top.id, Top.registration, "processor.deserialize", "")>>
  /\ stack' = <<>>
  /\ result' = Panicked
  /\ pc' = "done"
  /\ UNCHANGED <<registry, session, value, invocations, TYPE_INFO_STACK>>

\* (1) the processor takes the value over and its callback makes
\* TypedReflectDeserializer::new(<i32's registration>, registry), which
\* resets the thread-local, and calls its deserialize on the input.
DispatchProcessorDelegates ==
  /\ Dispatching("processor")
  /\ Top.processor.callback = "delegates"
  /\ calls' = calls \o ProcessorCheck(Top)
                \o <<Call(Top.id, Top.registration, "processor.deserialize", "")>>
  /\ TYPE_INFO_STACK' = <<>>
  /\ stack' = Append(SetTop([Top EXCEPT !.pc = "callback", !.strategy = "processor"]),
                     Frame(invocations + 1, "i32", Top.input, NoProcessor))
  /\ invocations' = invocations + 1
  /\ UNCHANGED <<registry, session, pc, value, result>>

\* (2) the ReflectDeserialize type data.
DispatchReflectDeserialize ==
  /\ Dispatching("ReflectDeserialize")
  /\ Finish("ReflectDeserialize",
            ProcessorCheck(Top)
              \o <<Call(Top.id, Top.registration, "ReflectDeserialize::deserialize", "")>>,
            TypeDataDeserialize(Top.registration, Top.input))

\* (3) the ReflectDeserializeWithRegistry type data.
DispatchReflectDeserializeWithRegistry ==
  /\ Dispatching("ReflectDeserializeWithRegistry")
  /\ Finish("ReflectDeserializeWithRegistry",
            ProcessorCheck(Top)
              \o <<Call(Top.id, Top.registration,
                        "ReflectDeserializeWithRegistry::deserialize", "")>>,
            TypeDataDeserialize(Top.registration, Top.input))

\* (4) the match on type_info(), Opaque arm.
DispatchOpaque ==
  /\ Dispatching("structural")
  /\ TypeInfos[Top.registration].kind = "Opaque"
  /\ Finish("structural", ProcessorCheck(Top), OpaqueResult(Top.registration))

\* (4) the match on type_info(), the other arms: the input is requested in
\* the kind's shape and the format starts the visitor.
DispatchStructural ==
  /\ Dispatching("structural")
  /\ TypeInfos[Top.registration].kind \in StructuralKinds
  /\ LET request == Request(registry, Top.registration)
         plan == Plan(request, Top.registration, Top.input)
     IN /\ stack' = SetTop([Top EXCEPT !.pc = "visit", !.strategy = "structural",
                                       !.request = request, !.kind = plan.kind,
                                       !.variant = plan.variant, !.names = plan.names,
                                       !.todo = plan.todo, !.fin = plan.fin])
        /\ calls' = calls \o ProcessorCheck(Top)
                      \o <<Call(Top.id, Top.registration, request.method, "")>>
  /\ UNCHANGED <<registry, session, pc, value, result, invocations, TYPE_INFO_STACK>>

\* The visitor decodes its next nested value: a TypedReflectDeserializer
\* made by new_internal for the nested registration.
VisitNext ==
  /\ Running /\ Top.pc = "visit" /\ Top.todo # <<>>
  /\ stack' = Append(stack, Frame(invocations + 1, Head(Top.todo).registration,
                                  Head(Top.todo).input, VisitorProcessor(Top.processor)))
  /\ invocations' = invocations + 1
  /\ UNCHANGED <<registry, session, pc, value, result, calls, TYPE_INFO_STACK>>

\* The visitor has no nested value left: it returns its container or its
\* error, and on Ok the arm sets the represented type and returns the box.
VisitFinish ==
  /\ Running /\ Top.pc = "visit" /\ Top.todo = <<>>
  /\ stack' = SetTop([Top EXCEPT
        !.pc = "exit",
        !.output = ArmResult(IF Top.fin = "ok"
                             THEN Ok(Dynamic(Top.kind, Top.variant, Top.names, Top.done))
                             ELSE Err(Top.fin),
                             Top.registration)])
  /\ UNCHANGED <<registry, session, pc, value, result, calls, invocations, TYPE_INFO_STACK>>

\* pop, then `output` goes to the caller. Here the caller is a visitor: an
\* error ends it (and its invocation), a value is kept and the visit goes on.
ReturnToVisitor ==
  /\ Len(stack) > 1 /\ Top.pc = "exit" /\ stack[Len(stack) - 1].pc = "visit"
  /\ TYPE_INFO_STACK' = PopAfter(TYPE_INFO_STACK, Top.output)
  /\ LET out == Top.output
         parent == stack[Len(stack) - 1]
     IN stack' = Append(SubSeq(stack, 1, Len(stack) - 2),
                   IF out.st = "ok"
                   THEN [parent EXCEPT !.done = Append(parent.done, out.value),
                                       !.todo = Tail(parent.todo)]
                   ELSE [parent EXCEPT !.pc = "exit",
                                       !.output = ArmResult(out, parent.registration)])
  /\ UNCHANGED <<registry, session, pc, value, result, calls, invocations>>

\* pop, then `output` goes to the processor's callback that made the
\* deserializer; the callback returns it and deserialize_internal maps its
\* error with make_custom_error.
ReturnToCallback ==
  /\ Len(stack) > 1 /\ Top.pc = "exit" /\ stack[Len(stack) - 1].pc = "callback"
  /\ TYPE_INFO_STACK' = PopAfter(TYPE_INFO_STACK, Top.output)
  /\ LET out == Top.output
         parent == stack[Len(stack) - 1]
     IN stack' = Append(SubSeq(stack, 1, Len(stack) - 2),
                   [parent EXCEPT !.pc = "exit",
                                  !.output = IF out.st = "err"
                                             THEN Err(make_custom_error(out.err))
                                             ELSE out])
  /\ UNCHANGED <<registry, session, pc, value, result, calls, invocations>>

\* pop, then `output` goes to visit_map's next_value_seed.
ReturnToVisitMap ==
  /\ Len(stack) = 1 /\ Top.pc = "exit" /\ pc = "visit_map_value"
  /\ TYPE_INFO_STACK' = PopAfter(TYPE_INFO_STACK, Top.output)
  /\ value' = Top.output
  /\ stack' = <<>>
  /\ pc' = "visit_map_end"
  /\ UNCHANGED <<registry, session, result, calls, invocations>>

\* pop, then `output` goes to the caller of the typed entry point.
ReturnToCaller ==
  /\ Len(stack) = 1 /\ Top.pc = "exit" /\ pc = "typed"
  /\ TYPE_INFO_STACK' = PopAfter(TYPE_INFO_STACK, Top.output)
  /\ result' = Top.output
  /\ stack' = <<>>
  /\ pc' = "done"
  /\ UNCHANGED <<registry, session, value, calls, invocations>>

\* The caller takes the result; the thread is ready for its next session.
\* Only the thread-local outlives the session.
SessionEnd ==
  /\ pc = "done"
  /\ Begin(NoSession, [p \in Paths |-> BaseData(p)], "idle", <<>>, TYPE_INFO_STACK)

Next ==
  \/ SessionEnd
  \/ ReflectDeserializer_new
  \/ ReflectDeserializer_new_with_processor
  \/ VisitMapKey
  \/ VisitMapEnd
  \/ TypedReflectDeserializer_new
  \/ TypedReflectDeserializer_new_with_processor
  \/ TypedReflectDeserializer_of
  \/ Enter
  \/ DispatchProcessor
  \/ DispatchProcessorPanics
  \/ DispatchProcessorDelegates
  \/ DispatchReflectDeserialize
  \/ DispatchReflectDeserializeWithRegistry
  \/ DispatchOpaque
  \/ DispatchStructural
  \/ VisitNext
  \/ VisitFinish
  \/ ReturnToVisitor
  \/ ReturnToCallback
  \/ ReturnToVisitMap
  \/ ReturnToCaller

Spec == Init /\ [][Next]_vars

\* =================================================================== claims
Frames == {stack[i] : i \in 1..Len(stack)}
\* The invocation has chosen its strategy.
Dispatched(f) == f.pc \in {"visit", "callback", "exit"}
\* The names of the calls invocation `id` made, in order.
CallNamesOf(id) ==
  LET mine == SelectSeq(calls, LAMBDA c : c.id = id)
  IN [i \in 1..Len(mine) |-> mine[i].call]
\* The same, the consultation of the processor left out.
StrategyCallsOf(id) ==
  LET mine == SelectSeq(calls, LAMBDA c : c.id = id /\ c.call # "can_deserialize")
  IN [i \in 1..Len(mine) |-> mine[i].call]
Claimed(f) == f.processor.attached /\ f.registration \in f.processor.claims
Untyped ==
  session.entry \in {"ReflectDeserializer::new", "ReflectDeserializer::new_with_processor"}
Typed ==
  session.entry \in {"TypedReflectDeserializer::new",
                     "TypedReflectDeserializer::new_with_processor",
                     "TypedReflectDeserializer::of"}
\* What the processor's callback hands back for f, as deserialize returns it.
CallbackResult(f) ==
  LET r == ProcessorDeserialize(f.processor, f.registration, f.input)
  IN IF r.st = "err" THEN Err(make_custom_error(r.err)) ELSE r

\* C1: whenever a processor is attached and its can_deserialize returns true
\* for the registration being decoded, the invocation calls can_deserialize
\* and the processor's deserialize callback and nothing else (no
\* ReflectDeserialize, no ReflectDeserializeWithRegistry, no structural
\* request), and returns the callback's value or its error; this holds for
\* every invocation of the session, also when the registration carries
\* ReflectDeserialize.
C1_ProcessorPrecedence ==
  /\ \A f \in Frames :
       (Dispatched(f) /\ Claimed(f)) =>
         /\ CallNamesOf(f.id) = <<"can_deserialize", "processor.deserialize">>
         /\ f.pc \in {"callback", "exit"}
         /\ f.pc = "exit" => f.output = CallbackResult(f)
  /\ \A i \in 1..Len(calls) :
       (calls[i].call = "can_deserialize" /\ calls[i].ret = "true") =>
         StrategyCallsOf(calls[i].id) \in {<<>>, <<"processor.deserialize">>}
  /\ (pc = "done" /\ Typed /\ session.processor.attached
        /\ session.registration \in session.processor.claims) =>
       result = CallbackResult(session)

\* C1 witness: a claimed registration that also carries ReflectDeserialize
\* has been decoded by the processor.
C1_Witness ==
  \E f \in Frames :
    /\ f.pc = "exit" /\ Claimed(f) /\ f.output.st = "ok"
    /\ HasData(registry, f.registration, ReflectDeserialize)

\* C2 (as stated): every successful invocation for a registration of a
\* structural kind, with or without a processor, returns a value whose
\* represented type is that registration's type info.
C2_Original ==
  \A f \in Frames :
    (f.pc = "exit" /\ f.output.st = "ok"
       /\ TypeInfos[f.registration].kind \in StructuralKinds) =>
      f.output.value.represented = f.registration

\* C2 (amended): every successful invocation for a registration of a
\* structural kind that the processor did not take over returns a value
\* whose represented type is that registration's type info.
C2_RepresentedType ==
  \A f \in Frames :
    (f.pc = "exit" /\ f.output.st = "ok" /\ ~Claimed(f)
       /\ TypeInfos[f.registration].kind \in StructuralKinds) =>
      f.output.value.represented = f.registration

\* C2 witness: a structurally decoded container with a nested value is
\* being returned with its tag.
C2_Witness ==
  \E f \in Frames :
    /\ f.pc = "exit" /\ f.output.st = "ok" /\ f.strategy = "structural"
    /\ f.output.value.items # <<>>
    /\ f.output.value.represented = f.registration

\* C3: the untyped entry point on an outer map with no entry fails with the
\* invalid-length error that expects a single entry, returns no value, and
\* makes no typed invocation and no call of the processor.
C3_EmptyOuterMap ==
  (pc = "done" /\ Untyped /\ session.outer = <<>>) =>
    /\ result = Err("invalid length 0, expected a single entry")
    /\ invocations = 0
    /\ calls = <<>>

\* C3 witness: a session with a processor on the empty map has ended.
C3_Witness ==
  /\ pc = "done" /\ Untyped /\ session.outer = <<>>
  /\ session.processor.attached

\* C4 (as stated): the untyped entry point on an outer map with a further
\* key after its first entry fails with the invalid-length error.
C4_Original ==
  (pc = "done" /\ Untyped /\ Len(session.outer) > 1) =>
    result = Err("invalid length 2, expected a single entry")

\* C4 (amended): on an outer map with a further key after its first entry
\* the untyped entry point fails and returns no value; the error is the
\* invalid-length error whenever the first key resolved and its value
\* decoded, and the first entry's own error otherwise; a value is returned
\* only for a map of exactly one entry.
C4_TrailingKey ==
  pc = "done" /\ Untyped =>
    /\ Len(session.outer) > 1 =>
         /\ result.st = "err" /\ result.value = NoValue
         /\ value.st = "ok" => result = Err("invalid length 2, expected a single entry")
         /\ value.st = "err" => result = value
         /\ value.st = "none" => result.err = FirstKey(session.outer).err
    /\ result.st = "ok" => Len(session.outer) = 1

\* C4 witness: the first entry decoded and a further key made the session fail.
C4_Witness ==
  /\ pc = "done" /\ Untyped /\ Len(session.outer) > 1
  /\ value.st = "ok" /\ result.st = "err"

\* C5: the untyped entry point on a single-entry map whose key is no
\* registered type path fails with the unregistered-type error naming the
\* key, returns no value, and decodes nothing: no typed invocation is made
\* and the processor is not called.
C5_UnregisteredKey ==
  (pc = "done" /\ Untyped /\ Len(session.outer) = 1
     /\ session.outer[1].items[1].name \notin Paths) =>
    /\ result = Err("no registration found for " \o session.outer[1].items[1].name)
    /\ invocations = 0
    /\ calls = <<>>
    /\ value = NoResult

\* C5 witness: a session with a processor on such a map has ended.
C5_Witness ==
  /\ pc = "done" /\ Untyped /\ Len(session.outer) = 1
  /\ session.outer[1].items[1].name \notin Paths
  /\ session.processor.attached

\* C6: a TupleStruct registration handled structurally is requested in
\* newtype shape (deserialize_newtype_struct) if and only if it has exactly
\* one field and no SerializationData type data; in every other case it is
\* requested with deserialize_tuple_struct and its declared field count.
C6_NewtypeRequest ==
  \A f \in Frames :
    (Dispatched(f) /\ f.strategy = "structural"
       /\ TypeInfos[f.registration].kind = "TupleStruct") =>
      LET n == Len(TypeInfos[f.registration].fields)
          skip == SerializationData \in registry[f.registration]
      IN /\ StrategyCallsOf(f.id) = <<f.request.method>>
         /\ (n = 1 /\ ~skip) =>
              f.request = Req("deserialize_newtype_struct", 0, "TupleStructVisitor")
         /\ ~(n = 1 /\ ~skip) =>
              f.request = Req("deserialize_tuple_struct", n, "TupleStructVisitor")

\* C6 witness: a one-field tuple struct with SerializationData has been
\* decoded from the tuple shape.
C6_Witness ==
  \E f \in Frames :
    /\ f.pc = "exit" /\ f.strategy = "structural" /\ f.output.st = "ok"
    /\ TypeInfos[f.registration].kind = "TupleStruct"
    /\ Len(TypeInfos[f.registration].fields) = 1
    /\ SerializationData \in registry[f.registration]
    /\ f.request.method = "deserialize_tuple_struct"

\* The Deserializer methods the arm of a kind may call.
MethodsOf(kind) ==
  CASE kind = "Struct" -> {"deserialize_struct"}
    [] kind = "TupleStruct" -> {"deserialize_newtype_struct", "deserialize_tuple_struct"}
    [] kind \in {"List", "Set"} -> {"deserialize_seq"}
    [] kind \in {"Array", "Tuple"} -> {"deserialize_tuple"}
    [] kind = "Map" -> {"deserialize_map"}
    [] kind = "Enum" -> {"deserialize_option", "deserialize_enum"}
    [] OTHER -> {}

\* C7: an invocation runs exactly one strategy, the first that applies of
\* (1) the processor when can_deserialize is true, (2) ReflectDeserialize,
\* (3) ReflectDeserializeWithRegistry, (4) the structural arm of its kind;
\* so a registration with both type data uses ReflectDeserialize only, and
\* a registration with either is never decoded structurally.
C7_FirstStrategyWins ==
  /\ \A f \in Frames :
       LET made == StrategyCallsOf(f.id)
           data == registry[f.registration]
           kind == TypeInfos[f.registration].kind
       IN IF ~Dispatched(f) THEN made = <<>>
          ELSE IF Claimed(f) THEN made = <<"processor.deserialize">>
          ELSE IF ReflectDeserialize \in data
            THEN made = <<"ReflectDeserialize::deserialize">>
          ELSE IF ReflectDeserializeWithRegistry \in data
            THEN made = <<"ReflectDeserializeWithRegistry::deserialize">>
          ELSE IF kind = "Opaque" THEN made = <<>>
          ELSE Len(made) = 1 /\ made[1] \in MethodsOf(kind)
  /\ \A i \in 1..Len(calls) : Len(StrategyCallsOf(calls[i].id)) <= 1

\* C7 witness: a Struct registration with both type data, not claimed by
\* the attached processor, has been decoded by ReflectDeserialize.
C7_Witness ==
  \E f \in Frames :
    /\ f.pc = "exit" /\ f.output.st = "ok"
    /\ f.processor.attached /\ ~Claimed(f)
    /\ TypeInfos[f.registration].kind = "Struct"
    /\ {ReflectDeserialize, ReflectDeserializeWithRegistry} \subseteq registry[f.registration]
    /\ StrategyCallsOf(f.id) = <<"ReflectDeserialize::deserialize">>

\* C8: for an Opaque registration with neither ReflectDeserialize nor
\* ReflectDeserializeWithRegistry that no processor claims, the invocation
\* fails with the missing-strategy error naming the type path and returns
\* no value, having run no strategy; it never returns Ok.
C8_OpaqueWithoutStrategy ==
  /\ \A f \in Frames :
       (Dispatched(f) /\ TypeInfos[f.registration].kind = "Opaque" /\ ~Claimed(f)
          /\ registry[f.registration]
               \cap {ReflectDeserialize, ReflectDeserializeWithRegistry} = {}) =>
         /\ f.pc = "exit"
         /\ f.output.st = "err" /\ f.output.value = NoValue
         /\ f.output.err = "custom(type " \o f.registration
                             \o " did not register the ReflectDeserialize type data)"
         /\ StrategyCallsOf(f.id) = <<>>
  /\ (pc = "done" /\ Typed /\ TypeInfos[session.registration].kind = "Opaque"
        /\ ~(session.processor.attached
               /\ session.registration \in session.processor.claims)
        /\ registry[session.registration]
             \cap {ReflectDeserialize, ReflectDeserializeWithRegistry} = {}) =>
       result.st = "err"

\* C8 witness: such a registration has failed under an attached processor
\* that does not claim it.
C8_Witness ==
  \E f \in Frames :
    /\ f.pc = "exit" /\ TypeInfos[f.registration].kind = "Opaque"
    /\ f.processor.attached /\ ~Claimed(f)
    /\ registry[f.registration]
         \cap {ReflectDeserialize, ReflectDeserializeWithRegistry} = {}
    /\ f.output.st = "err"

\* C9: an Array registration of capacity N decoded structurally fails, with
\* no value, on every input sequence whose length is not N, shorter or
\* longer; it succeeds only with exactly N elements.
C9_ArrayLength ==
  \A f \in Frames :
    (f.pc = "exit" /\ f.strategy = "structural"
       /\ TypeInfos[f.registration].kind = "Array") =>
      LET n == TypeInfos[f.registration].capacity IN
      /\ (f.input.t = "seq" /\ Len(f.input.items) # n) =>
           (f.output.st = "err" /\ f.output.value = NoValue)
      /\ f.output.st = "ok" =>
           /\ f.input.t = "seq" /\ Len(f.input.items) = n
           /\ Len(f.output.value.items) = n

\* C9 witness: a sequence longer than the capacity, all of whose elements
\* decoded, has been refused.
C9_Witness ==
  \E f \in Frames :
    /\ f.pc = "exit" /\ f.strategy = "structural"
    /\ TypeInfos[f.registration].kind = "Array"
    /\ Len(f.done) > TypeInfos[f.registration].capacity
    /\ Len(f.done) = Len(f.input.items)
    /\ f.output.st = "err"

\* C10: an Enum registration decoded structurally is read with
\* deserialize_option exactly when its module path is core::option and its
\* ident is Option, and with deserialize_enum otherwise; for Option<i32> the
\* absent token yields the None variant of a dynamic enum and present(n)
\* the Some variant wrapping the leaf n (n = 5 among them).
C10_OptionConvention ==
  \A f \in Frames :
    (Dispatched(f) /\ f.strategy = "structural"
       /\ TypeInfos[f.registration].kind = "Enum") =>
      LET info == TypeInfos[f.registration] IN
      /\ StrategyCallsOf(f.id) = <<f.request.method>>
      /\ f.request.method =
           IF info.module_path = "core::option" /\ info.ident = "Option"
           THEN "deserialize_option" ELSE "deserialize_enum"
      /\ (f.pc = "exit" /\ f.registration = "core::option::Option<i32>"
            /\ ~(f.processor.attached /\ "i32" \in f.processor.claims)) =>
           /\ f.input = NoneTok =>
                f.output = Ok(Val("DynamicEnum", f.registration, "None", <<>>, <<>>, 0))
           /\ \A n \in (MaxInt - 1)..MaxInt :
                f.input = SomeTok(IntTok(n)) =>
                  f.output = Ok(Val("DynamicEnum", f.registration, "Some", <<>>,
                                    <<ConcreteVal("i32", n)>>, 0))

\* C10 witness: present(5) has been decoded to the Some variant wrapping 5.
C10_Witness ==
  \E f \in Frames :
    /\ f.pc = "exit" /\ f.strategy = "structural"
    /\ f.registration = "core::option::Option<i32>"
    /\ f.input = SomeTok(IntTok(5))
    /\ f.request.method = "deserialize_option"
    /\ f.output.st = "ok"
    /\ f.output.value.variant = "Some"
    /\ f.output.value.items = <<ConcreteVal("i32", 5)>>

\* What one step of a session does to the thread-local: the step that takes
\* an invocation out of "enter" pushes its type info and nothing else pushes;
\* the step that ends an invocation pops; a session that found the stack
\* empty and returns leaves it empty.
C11_Step ==
  /\ (Running /\ Top.pc = "enter" /\ stack' # stack) =>
       /\ TYPE_INFO_STACK' = Append(TYPE_INFO_STACK, Top.registration)
       /\ stack' = SetTop([Top EXCEPT !.pc = "dispatch"])
       /\ calls' = calls
  /\ Len(TYPE_INFO_STACK') > Len(TYPE_INFO_STACK) => (Running /\ Top.pc = "enter")
  /\ (Running /\ Top.pc = "exit" /\ stack' # stack) =>
       /\ TYPE_INFO_STACK' = Pop(TYPE_INFO_STACK)
       /\ Len(stack') = Len(stack) - 1
  /\ (pc # "done" /\ pc' = "done" /\ result'.st \in {"ok", "err"}
        /\ session.stack0 = <<>>) =>
       TYPE_INFO_STACK' = <<>>

\* C11: every invocation pushes its type info once, before it dispatches,
\* and pops once when deserialize_internal has returned, whichever strategy
\* ran and whether it returned a value or an error; so a session that
\* started on an empty stack leaves the stack empty when it returns Ok or Err.
C11_PushPop == [][C11_Step]_vars

\* C11 witness: a session that started on an empty stack has returned an
\* error from a nested invocation, and the stack is empty.
C11_Witness ==
  /\ pc = "done" /\ result.st = "err" /\ session.stack0 = <<>>
  /\ invocations >= 2
  /\ TYPE_INFO_STACK = <<>>

\* C12: whichever way a session is started (TypedReflectDeserializer::new,
\* new_with_processor or of, ReflectDeserializer::new or new_with_processor),
\* its deserialize call finds the thread-local stack empty: no entry of an
\* earlier session on the thread is left in it.
C12_ClearedAtStart == session.entry # "" => session.stack0 = <<>>

\* The calls invocation `id` made, in order.
CallsOf(id) == SelectSeq(calls, LAMBDA c : c.id = id)
\* Invocation i was started by the entry point or by a visitor of the
\* session, not by a deserializer a callback made for itself.
ByVisitors(i) == \A j \in 1..(i - 1) : stack[j].pc = "visit"

\* C13: the session's processor is the processor of every invocation the
\* entry point and the visitors start, at any depth; each such invocation
\* opens by calling can_deserialize on its own registration, and one whose
\* registration the processor claims is decoded by the callback and returns
\* what the callback returned.
C13_ProcessorEverywhere ==
  \A i \in 1..Len(stack) :
    ByVisitors(i) =>
      LET f == stack[i] IN
      /\ f.processor = session.processor
      /\ (Dispatched(f) /\ session.processor.attached) =>
           /\ CallsOf(f.id) # <<>>
           /\ CallsOf(f.id)[1].call = "can_deserialize"
           /\ CallsOf(f.id)[1].registration = f.registration
           /\ CallsOf(f.id)[1].ret = "true" <=> f.registration \in session.processor.claims
           /\ f.registration \in session.processor.claims =>
                /\ f.strategy = "processor"
                /\ StrategyCallsOf(f.id) = <<"processor.deserialize">>
                /\ f.pc = "exit" =>
                     f.output = CallbackResult([f EXCEPT !.processor = session.processor])

\* C13 witness: two levels below a container that the processor does not
\* claim, a value whose registration it claims has been produced by the
\* callback.
C13_Witness ==
  /\ Len(stack) = 3 /\ ByVisitors(3)
  /\ session.processor.attached
  /\ stack[1].registration \notin session.processor.claims
  /\ stack[2].registration \notin session.processor.claims
  /\ Top.registration \in session.processor.claims
  /\ Top.pc = "exit" /\ Top.strategy = "processor"
  /\ Top.output = Ok(ConcreteVal("i32", 42))

\* The innermost invocation has failed: deserialize_internal returned an error.
Failed == Running /\ Top.pc = "exit" /\ Top.output.st = "err"

\* What one step does with a failure. The step after an invocation has
\* failed hands its error to its caller and starts nothing: a visitor ends
\* with that error, its container and the siblings still to decode dropped
\* as they are; a callback's error is mapped by make_custom_error; the entry
\* point returns it. A visitor's arm returns Ok only when the visitor did,
\* with every nested value decoded, and otherwise the visitor's error.
C14_Step ==
  /\ Failed =>
       /\ invocations' = invocations
       /\ calls' = calls
       /\ IF Len(stack) > 1
          THEN LET parent == stack[Len(stack) - 1] IN
               /\ Len(stack') = Len(stack) - 1
               /\ stack'[Len(stack')] =
                    [parent EXCEPT !.pc = "exit",
                                   !.output = IF parent.pc = "visit" THEN Top.output
                                              ELSE Err(make_custom_error(Top.output.err))]
               /\ UNCHANGED <<pc, value, result>>
          ELSE /\ stack' = <<>>
               /\ pc = "typed" => (pc' = "done" /\ result' = Top.output)
               /\ pc = "visit_map_value" =>
                    (pc' = "visit_map_end" /\ value' = Top.output /\ result' = result)
  /\ (pc = "visit_map_end" /\ value.st = "err") => (pc' = "done" /\ result' = value)
  /\ (Running /\ Top.pc = "visit" /\ Len(stack') = Len(stack)
        /\ stack'[Len(stack')].pc = "exit") =>
       LET out == stack'[Len(stack')].output IN
       /\ out.st = "ok" <=> (Top.todo = <<>> /\ Top.fin = "ok")
       /\ out.st = "ok" =>
            /\ out.value.items = Top.done
            /\ out.value.represented = Top.registration
       /\ out.st # "ok" => out = Err(Top.fin)

\* C14: a failure anywhere in a session is the session's result. Once an
\* invocation has failed (its processor callback, its custom deserialize
\* function or one of its nested values failed) every enclosing deserialize
\* call returns an error and no value, no further sibling is decoded, no
\* default stands in; and a container is returned, its represented type
\* set, only after its visitor returned Ok.
C14_FailureIsTerminal == [][C14_Step]_vars

\* C14 witness: a visitor that had decoded one nested value has ended with
\* the error of the next, a further sibling left undecoded.
C14_Witness ==
  /\ Len(stack) >= 1 /\ Failed
  /\ Top.strategy = "structural"
  /\ Len(Top.done) >= 1 /\ Len(Top.todo) >= 2
  /\ Top.output.value = NoValue

\* The outer map is {P: D} with P a registered path.
SingleEntry ==
  /\ Untyped /\ Len(session.outer) = 1
  /\ session.outer[1].items[1].name \in Paths

\* C15: for every registry, processor or none, registered path P and
\* payload D, the untyped entry point on the single-entry map {P: D} returns
\* exactly what the typed engine returns for P's registration on D with the
\* same processor, the same value or the same error; and what the typed
\* engine returns is what a typed session on that registration and input
\* returns.
C15_UntypedIsTyped ==
  /\ (pc = "done" /\ SingleEntry) =>
       result = TypedReflectDeserializer_deserialize(
                  session.processor, registry,
                  session.outer[1].items[1].name, session.outer[1].items[2])
  /\ (pc = "done" /\ Typed) =>
       result = TypedReflectDeserializer_deserialize(
                  session.processor, registry, session.registration, session.input)

\* C15 witness: an untyped session on {P: D} with a processor has returned
\* a container one of whose nested values the processor produced.
C15_Witness ==
  /\ pc = "done" /\ SingleEntry
  /\ session.processor.attached
  /\ result.st = "ok" /\ result.value.kind # "Concrete"
  /\ \E i \in 1..Len(calls) : calls[i].call = "processor.deserialize" /\ calls[i].id >= 2

\* The type infos of the active invocations, outermost first: of every
\* deserialize call that has begun (pushed) and not yet returned.
Entered ==
  LET active == SelectSeq(stack, LAMBDA f : f.pc # "enter")
  IN [i \in 1..Len(active) |-> active[i].registration]

\* C16: at every point of a session that started on an empty stack and has
\* not panicked, the thread-local stack is exactly the type infos of the
\* active invocations, outermost first, so its depth is the recursion depth
\* and an invocation about to pop finds its own entry; also while a
\* processor's callback decodes with a deserializer it made by
\* TypedReflectDeserializer::new.
C16_StackMirrorsInvocations ==
  (session.stack0 = <<>> /\ result # Panicked) =>
    /\ TYPE_INFO_STACK = Entered
    /\ (Running /\ Top.pc = "exit") =>
         (TYPE_INFO_STACK # <<>>
            /\ TYPE_INFO_STACK[Len(TYPE_INFO_STACK)] = Top.registration)

\* How often invocation `id` made the call `what`.
TimesCalled(id, what) ==
  Cardinality({i \in 1..Len(calls) : calls[i].id = id /\ calls[i].call = what})

\* What the running session returns when run with no processor: visit_map
\* around the typed engine for the untyped entry point, the typed engine
\* alone for the typed one.
WithoutProcessor ==
  IF Untyped
  THEN LET k == FirstKey(session.outer) IN
       IF k.st = "err" THEN Err(k.err)
       ELSE AfterValue(session.outer,
                       TypedReflectDeserializer_deserialize(
                         NoProcessor, registry, k.registration,
                         session.outer[1].items[2]))
  ELSE TypedReflectDeserializer_deserialize(
         NoProcessor, registry, session.registration, session.input)

\* C17: an invocation with a processor calls can_deserialize exactly once,
\* as its first call, before anything is asked of the input; it calls the
\* deserialize callback at most once, right after, and only when
\* can_deserialize returned true; an invocation without a processor calls
\* neither. So a session whose processor claims no registration returns
\* what the same session returns with no processor.
C17_ConsultedOnce ==
  /\ \A f \in Frames :
       Dispatched(f) =>
         /\ TimesCalled(f.id, "can_deserialize") = IF f.processor.attached THEN 1 ELSE 0
         /\ f.processor.attached => CallsOf(f.id)[1].call = "can_deserialize"
  /\ \A id \in 1..invocations :
       LET mine == CallsOf(id) IN
       /\ TimesCalled(id, "can_deserialize") <= 1
       /\ TimesCalled(id, "processor.deserialize") <= 1
       /\ TimesCalled(id, "can_deserialize") = 1 => mine[1].call = "can_deserialize"
       /\ TimesCalled(id, "processor.deserialize") = 1 =>
            /\ Len(mine) = 2
            /\ mine[1].call = "can_deserialize" /\ mine[1].ret = "true"
            /\ mine[2].call = "processor.deserialize"
       /\ (mine # <<>> /\ mine[1].call = "can_deserialize" /\ mine[1].ret = "false") =>
            TimesCalled(id, "processor.deserialize") = 0
  /\ (pc = "done" /\ session.processor.attached /\ session.processor.claims = {}) =>
       result = WithoutProcessor

\* C17 witness: a session whose processor claims nothing has decoded a
\* container: every invocation asked can_deserialize, was told false, and
\* went on to its own strategy.
C17_Witness ==
  /\ pc = "done" /\ session.processor.attached /\ session.processor.claims = {}
  /\ invocations >= 2 /\ result.st = "ok"
  /\ \A id \in 1..invocations :
       /\ CallsOf(id)[1].call = "can_deserialize" /\ CallsOf(id)[1].ret = "false"
       /\ Len(CallsOf(id)) = 2
  /\ result = WithoutProcessor

====
